---- MODULE Spec2Model ----
(***************************************************************************)
(* Model of the ai-diagnostic-operator: the pod watcher (Failure Detector) *)
(* that opens PodDiagnosis requests for failed pods, and the PodDiagnosis  *)
(* reconciler (Lifecycle Controller) that drives a request to a terminal   *)
(* phase through log retrieval and a call to the AI endpoint.              *)
(*                                                                         *)
(* A Go pointer is modelled as a sequence of length 0 (nil) or 1.          *)
(* Go strings built with fmt.Sprintf are modelled as tuples of their       *)
(* parts, in the order the format string places them.                      *)
(***************************************************************************)
EXTENDS Integers, Sequences, FiniteSets, TLC

(***************************************************************************)
(* Bounds of the model.                                                    *)
(***************************************************************************)
\* longest containerStatuses list drawn for the classification inputs
MaxContainers == 2
\* longest conditions list drawn for the classification inputs
MaxConds == 1
\* pods created over a run (each creation takes a fresh UID)
MaxPodCreates == 2
\* PodDiagnosis objects created over a run (each takes a fresh generated name)
MaxDiagnoses == 2
\* resource-store operations that fail over a run
MaxFaults == 1
\* the highest resourceVersion at which a stored PodDiagnosis is still edited
\* by hand (a new object has resourceVersion 1)
MaxEdits == 1

(***************************************************************************)
(* Pod status values (k8s.io/api/core/v1 as used by the source).           *)
(***************************************************************************)
PodPending == "Pending"
PodRunning == "Running"
PodSucceeded == "Succeeded"
PodFailed == "Failed"
PodPhases == {PodPending, PodRunning, PodSucceeded, PodFailed}

PodScheduled == "PodScheduled"
PodReasonUnschedulable == "Unschedulable"
ConditionTrue == "True"
ConditionFalse == "False"

\* a pod condition: type, status, reason, message
Conditions ==
  [type : {PodScheduled, PodReasonUnschedulable},
   status : {ConditionTrue, ConditionFalse},
   reason : {PodReasonUnschedulable, ""},
   message : {"0/3 nodes are available"}]

WaitingReasons ==
  {"ImagePullBackOff", "ErrImagePull", "CrashLoopBackOff",
   "CreateContainerError", "ContainerCreating"}

\* State.Waiting: nil or a pointer to a waiting state
WaitingStates == {<<>>} \cup {<<[reason |-> r]>> : r \in WaitingReasons}

\* State.Terminated: nil or a pointer to a terminated state
TerminatedStates ==
  {<<>>,
   <<[exitCode |-> 0, reason |-> "Completed"]>>,
   <<[exitCode |-> 1, reason |-> "Error"]>>}

ContainerNames == <<"app", "sidecar", "init">>

\* container statuses at position i of a pod's containerStatuses
ContainerStatusesAt(i) ==
  [name : {ContainerNames[((i - 1) % Len(ContainerNames)) + 1]},
   waiting : WaitingStates,
   terminated : TerminatedStates]

\* all sequences of length n whose i-th element is drawn from At(i)
RECURSIVE SeqsOfLen(_, _)
SeqsOfLen(At(_), n) ==
  IF n = 0 THEN {<<>>}
  ELSE {Append(s, x) : s \in SeqsOfLen(At, n - 1), x \in At(n)}

CondAt(i) == Conditions

ConditionLists == UNION {SeqsOfLen(CondAt, n) : n \in 0..MaxConds}
ContainerStatusLists ==
  UNION {SeqsOfLen(ContainerStatusesAt, n) : n \in 0..MaxContainers}

\* pod.Status as far as the source reads it
PodStatuses ==
  [phase : PodPhases,
   conditions : ConditionLists,
   containerStatuses : ContainerStatusLists]

(***************************************************************************)
(* isPodFailed, as the source computes it: three rules in order, the loops *)
(* with their early returns.                                               *)
(***************************************************************************)
\* rule 2, first loop: a PodScheduled=False condition with reason Unschedulable
RECURSIVE unschedulableLoop(_, _)
unschedulableLoop(conds, i) ==
  IF i > Len(conds) THEN FALSE
  ELSE IF /\ conds[i].type = PodScheduled
          /\ conds[i].status = ConditionFalse
          /\ conds[i].reason = PodReasonUnschedulable
       THEN TRUE
       ELSE unschedulableLoop(conds, i + 1)

\* rule 2, second loop: a container waiting with one of four reasons
RECURSIVE waitingLoop(_, _)
waitingLoop(cs, i) ==
  IF i > Len(cs) THEN FALSE
  ELSE IF /\ cs[i].waiting # <<>>
          /\ cs[i].waiting[1].reason \in
               {"ImagePullBackOff", "ErrImagePull", "CrashLoopBackOff",
                "CreateContainerError"}
       THEN TRUE
       ELSE waitingLoop(cs, i + 1)

\* mutant: the exit-code test of rule 3 is inverted (== 0 instead of != 0)
RECURSIVE terminatedLoop_ZeroExit(_, _, _, _)
terminatedLoop_ZeroExit(cs, i, allTerminated, hasNonZero) ==
  IF i > Len(cs) THEN allTerminated /\ hasNonZero
  ELSE IF cs[i].terminated = <<>>
       THEN IF /\ cs[i].waiting # <<>>
               /\ \/ cs[i].waiting[1].reason = "CrashLoopBackOff"
                  \/ cs[i].waiting[1].reason = "CreateContainerError"
            THEN TRUE
            ELSE terminatedLoop_ZeroExit(cs, i + 1, FALSE, hasNonZero)
       ELSE IF cs[i].terminated[1].exitCode = 0
            THEN terminatedLoop_ZeroExit(cs, i + 1, allTerminated, TRUE)
            ELSE terminatedLoop_ZeroExit(cs, i + 1, allTerminated, hasNonZero)

\* rule 3: the loop that maintains allTerminated and hasNonZero
RECURSIVE terminatedLoop(_, _, _, _)
terminatedLoop(cs, i, allTerminated, hasNonZero) ==
  IF i > Len(cs) THEN allTerminated /\ hasNonZero
  ELSE IF cs[i].terminated = <<>>
       THEN IF /\ cs[i].waiting # <<>>
               /\ \/ cs[i].waiting[1].reason = "CrashLoopBackOff"
                  \/ cs[i].waiting[1].reason = "CreateContainerError"
            THEN TRUE
            ELSE terminatedLoop(cs, i + 1, FALSE, hasNonZero)
       ELSE IF cs[i].terminated[1].exitCode # 0
            THEN terminatedLoop(cs, i + 1, allTerminated, TRUE)
            ELSE terminatedLoop(cs, i + 1, allTerminated, hasNonZero)

\* mutant: the phase test of rule 2 is dropped
isPodFailed_NoPendingTest(pod) ==
  IF pod.phase = PodFailed THEN TRUE
  ELSE IF \/ unschedulableLoop(pod.conditions, 1)
          \/ waitingLoop(pod.containerStatuses, 1)
       THEN TRUE
       ELSE terminatedLoop(pod.containerStatuses, 1, TRUE, FALSE)

isPodFailed(pod) ==
  IF pod.phase = PodFailed THEN TRUE
  ELSE IF /\ pod.phase = PodPending
          /\ \/ unschedulableLoop(pod.conditions, 1)
             \/ waitingLoop(pod.containerStatuses, 1)
       THEN TRUE
       ELSE terminatedLoop(pod.containerStatuses, 1, TRUE, FALSE)

\* fmt's %d of the integers the model draws
fmtInt(n) ==
  CASE n = 0 -> "0"
    [] n = 1 -> "1"
    [] n = 100 -> "100"
    [] n = 200 -> "200"
    [] n = 500 -> "500"
    [] OTHER -> "?"

(***************************************************************************)
(* getFailureReason, as the source computes it.                            *)
(***************************************************************************)
RECURSIVE unschedulableReasonLoop(_, _)
unschedulableReasonLoop(conds, i) ==
  IF i > Len(conds) THEN <<>>
  ELSE IF /\ conds[i].type = PodReasonUnschedulable
          /\ conds[i].status = ConditionTrue
       THEN <<"Unschedulable: ", conds[i].message>>
       ELSE unschedulableReasonLoop(conds, i + 1)

RECURSIVE exitReasonLoop(_, _)
exitReasonLoop(cs, i) ==
  IF i > Len(cs) THEN <<"unknown failure">>
  ELSE IF cs[i].terminated # <<>> /\ cs[i].terminated[1].exitCode # 0
       THEN <<"Container ", cs[i].name, " exited with code ",
              fmtInt(cs[i].terminated[1].exitCode), ": ",
              cs[i].terminated[1].reason>>
       ELSE exitReasonLoop(cs, i + 1)

getFailureReason(pod) ==
  IF /\ pod.phase = PodFailed
     /\ unschedulableReasonLoop(pod.conditions, 1) # <<>>
  THEN unschedulableReasonLoop(pod.conditions, 1)
  ELSE exitReasonLoop(pod.containerStatuses, 1)

(***************************************************************************)
(* callAIEndpoint: the environment it reads and the reply it gets are      *)
(* inputs; the checks are made in the order of the source.  The Chinese    *)
(* error texts of the source are rendered in English.                      *)
(***************************************************************************)
\* the content of the first choice: JSON text, given by whether it parses
\* and by the fields of the object it denotes
Contents ==
  {[json |-> FALSE, fields |-> {}],
   [json |-> TRUE, fields |-> {<<"rootCause", "X">>, <<"suggestion", "Y">>}],
   [json |-> TRUE, fields |-> {<<"rootCause", "X">>}],
   [json |-> TRUE, fields |-> {}]}

\* the response body: whether the envelope decodes, and its choices
Bodies ==
  {[json |-> FALSE, choices |-> <<>>]}
  \cup {[json |-> TRUE, choices |-> c] :
          c \in {<<>>} \cup {<<x>> : x \in Contents}}

FullContent ==
  [json |-> TRUE, fields |-> {<<"rootCause", "X">>, <<"suggestion", "Y">>}]

\* a call in which everything works: both variables set, status 200, one
\* choice whose content carries both fields
GoodWorld ==
  [apiKey |-> "sk-key", apiURL |-> "https://ai.example/v1", transport |-> "ok",
   statusCode |-> 200, body |-> [json |-> TRUE, choices |-> <<FullContent>>]]

\* what one call meets: the environment variables, the transport, the reply;
\* the good call, and the calls that differ from it in one respect
AIWorlds ==
  {GoodWorld}
  \cup {[GoodWorld EXCEPT !.apiKey = ""], [GoodWorld EXCEPT !.apiURL = ""]}
  \cup {[GoodWorld EXCEPT !.transport = t] :
          t \in {"connection refused", "deadline exceeded"}}
  \cup {[GoodWorld EXCEPT !.statusCode = 500]}
  \cup {[GoodWorld EXCEPT !.body = bd] : bd \in Bodies}

\* encoding/json into a string field: the value of the key, "" when absent
jsonField(fields, key) ==
  IF \E kv \in fields : kv[1] = key
  THEN <<(CHOOSE kv \in fields : kv[1] = key)[2]>>
  ELSE <<>>

\* json.Unmarshal([]byte(content), &result)
unmarshalDiagnosisResult(content) ==
  [rootCause |-> jsonField(content.fields, "rootCause"),
   suggestion |-> jsonField(content.fields, "suggestion")]

\* mutant: an error of the HTTP status is not reported
callAIEndpoint_IgnoreStatus(w) ==
  IF w.apiKey = "" \/ w.apiURL = ""
  THEN [result |-> <<>>, err |-> <<"AI_API_KEY or AI_API_URL not configured">>]
  ELSE IF w.transport # "ok"
  THEN [result |-> <<>>, err |-> <<"calling the AI endpoint failed: ", w.transport>>]
  ELSE IF ~w.body.json
  THEN [result |-> <<>>, err |-> <<"parsing the AI response failed: ", "invalid character">>]
  ELSE IF Len(w.body.choices) = 0
  THEN [result |-> <<>>, err |-> <<"AI response is empty">>]
  ELSE IF ~w.body.choices[1].json
  THEN [result |-> <<>>,
        err |-> <<"unmarshalling DiagnosisResult failed, AI returned: ",
                  "not-json", ", error: ", "invalid character">>]
  ELSE [result |-> <<unmarshalDiagnosisResult(w.body.choices[1])>>, err |-> <<>>]

callAIEndpoint(w) ==
  IF w.apiKey = "" \/ w.apiURL = ""
  THEN [result |-> <<>>, err |-> <<"AI_API_KEY or AI_API_URL not configured">>]
  ELSE IF w.transport # "ok"
  THEN [result |-> <<>>, err |-> <<"calling the AI endpoint failed: ", w.transport>>]
  ELSE IF w.statusCode # 200
  THEN [result |-> <<>>,
        err |-> <<"AI endpoint returned a non-200 status code: ", fmtInt(w.statusCode)>>]
  ELSE IF ~w.body.json
  THEN [result |-> <<>>, err |-> <<"parsing the AI response failed: ", "invalid character">>]
  ELSE IF Len(w.body.choices) = 0
  THEN [result |-> <<>>, err |-> <<"AI response is empty">>]
  ELSE IF ~w.body.choices[1].json
  THEN [result |-> <<>>,
        err |-> <<"unmarshalling DiagnosisResult failed, AI returned: ",
                  "not-json", ", error: ", "invalid character">>]
  ELSE [result |-> <<unmarshalDiagnosisResult(w.body.choices[1])>>, err |-> <<>>]

(***************************************************************************)
(* getPodLogs: the log stream is an input.                                 *)
(***************************************************************************)
LogStreams ==
  {[open |-> FALSE, read |-> FALSE, text |-> ""],
   [open |-> TRUE, read |-> FALSE, text |-> ""],
   [open |-> TRUE, read |-> TRUE, text |-> "panic: boom"]}

\* podLogOpts as getPodLogs sets it, the stream opened and copied
getPodLogs(stream, tailLines) ==
  LET podLogOpts == [tailLines |-> <<tailLines>>]
  IN IF ~stream.open
     THEN [opts |-> podLogOpts, logs |-> "",
           err |-> <<"opening the log stream failed: ", "stream error">>]
     ELSE IF ~stream.read
     THEN [opts |-> podLogOpts, logs |-> "",
           err |-> <<"reading the log content failed: ", "read error">>]
     ELSE [opts |-> podLogOpts, logs |-> stream.text, err |-> <<>>]

(***************************************************************************)
(* The cluster: pods and PodDiagnosis objects in the resource store.       *)
(***************************************************************************)
\* pod identities: <<namespace, name>>
PodKeys == {<<"prod", "web">>}

Healthy ==
  [phase |-> PodRunning, conditions |-> <<>>,
   containerStatuses |-> <<[name |-> "app", waiting |-> <<>>, terminated |-> <<>>]>>]

CrashLoop ==
  [phase |-> PodRunning, conditions |-> <<>>,
   containerStatuses |->
     <<[name |-> "app", waiting |-> <<[reason |-> "CrashLoopBackOff"]>>,
        terminated |-> <<>>]>>]

ImagePull ==
  [phase |-> PodPending, conditions |-> <<>>,
   containerStatuses |->
     <<[name |-> "app", waiting |-> <<[reason |-> "ImagePullBackOff"]>>,
        terminated |-> <<>>]>>]

\* the pod statuses the cluster moves its pods through
ClusterPodStatuses == {Healthy, CrashLoop, ImagePull}

NoPod == [exists |-> FALSE, uid |-> 0, status |-> Healthy]

DiagNames == 1..MaxDiagnoses

\* PodDiagnosisStatus of a new object: every field at its zero value
EmptyStatus ==
  [phase |-> "", rootCause |-> <<>>, suggestion |-> <<>>, diagnosisTime |-> <<>>]

StatusFields == {"phase", "rootCause", "suggestion", "diagnosisTime"}

\* the values a manual edit gives spec.tailLines
TailLineValues == {0, 50}

VARIABLES
  pods,        \* resource store: PodKeys -> [exists, uid, status]
  nextUID,     \* the UID the next created pod gets
  diagnoses,   \* resource store: DiagNames -> <<>> or <<PodDiagnosis>>
  nextName,    \* the suffix GenerateName gives the next PodDiagnosis
  podQueue,    \* work queue of the pod watcher (pod keys)
  diagQueue,   \* work queue of the PodDiagnosis reconciler (names)
  watcher,     \* PodWatcherReconciler.Reconcile in progress, per pod key
  reconciler,  \* PodDiagnosisReconciler.Reconcile in progress, per name
  triggered,   \* pod keys the event filter let through in the last step
  lastPass,    \* what the reconciler pass that ended in the last step did
  events,      \* events recorded on the target pod, counted per PodDiagnosis
  faults,      \* resource-store operations that have failed so far
  scope,       \* the external outcomes and the objects a run draws from
  cpod,        \* classification: the pod status under test
  cres,        \* classification: <<>> or <<isPodFailed(cpod)>>
  creason      \* classification: <<>> or <<the trigger reason built for cpod>>

vars ==
  <<pods, nextUID, diagnoses, nextName, podQueue, diagQueue, watcher,
    reconciler, triggered, lastPass, events, faults, scope, cpod, cres, creason>>

\* errAt: the operation whose error the last pass returned
IdleWatcher ==
  [pc |-> "idle", pod |-> <<>>, diagnosis |-> <<>>, ret |-> "none",
   errAt |-> "none"]

\* the locals of a pass, and what it has done so far
IdleReconciler ==
  [pc |-> "idle", site |-> "none", entry |-> "none", diagnosis |-> <<>>,
   base |-> <<>>, tailLines |-> 0, requested |-> <<>>, fetched |-> "none",
   logs |-> "", world |-> <<>>, result |-> <<>>, podGet |-> "none",
   event |-> <<>>, logFetches |-> 0, aiCalls |-> 0]

\* the record of a pass that ended: the phase it read, the site of its status
\* write, the AI call it met, what it did, the status it sent, what it returned
NoPass ==
  [name |-> 0, entry |-> "none", site |-> "none", world |-> <<>>,
   result |-> <<>>, podGet |-> "none", event |-> <<>>, logFetches |-> 0,
   aiCalls |-> 0, patches |-> 0, patched |-> "none", wrote |-> <<>>,
   ret |-> "none"]

\* A run draws its external outcomes and its objects from one of two scopes:
\* every outcome of the log stream and of the AI call with one PodDiagnosis,
\* or one outcome of each kind with MaxDiagnoses of them.
EveryOutcome ==
  [worlds |-> AIWorlds, streams |-> LogStreams, diagnoses |-> 1]

EveryInterleaving ==
  [worlds |-> {GoodWorld, [GoodWorld EXCEPT !.statusCode = 500]},
   streams |-> {st \in LogStreams : st.open = st.read},
   diagnoses |-> MaxDiagnoses]

Scopes == {EveryOutcome, EveryInterleaving}

Init ==
  /\ pods = [p \in PodKeys |-> NoPod]
  /\ nextUID = 1
  /\ diagnoses = [d \in DiagNames |-> <<>>]
  /\ nextName = 1
  /\ podQueue = {}
  /\ diagQueue = {}
  /\ watcher = [p \in PodKeys |-> IdleWatcher]
  /\ reconciler = [d \in DiagNames |-> IdleReconciler]
  /\ triggered = {}
  /\ lastPass = NoPass
  /\ events = [d \in DiagNames |-> 0]
  /\ faults = 0
  /\ scope \in Scopes
  /\ cpod = Healthy
  /\ cres = <<>>
  /\ creason = <<>>

(***************************************************************************)
(* SetupWithManager of the pod watcher: the event filter.                  *)
(***************************************************************************)
CreateFunc(pod) == isPodFailed(pod)

\* mutant: the filter looks at the new state only
UpdateFunc_LevelTriggered(oldPod, newPod) == isPodFailed(newPod)

UpdateFunc(oldPod, newPod) == ~isPodFailed(oldPod) /\ isPodFailed(newPod)

DeleteFunc == FALSE

GenericFunc == FALSE

\* the platform creates pod p with status st
PodCreated(p, st) ==
  /\ ~pods[p].exists
  /\ nextUID <= MaxPodCreates
  /\ pods' = [pods EXCEPT ![p] = [exists |-> TRUE, uid |-> nextUID, status |-> st]]
  /\ nextUID' = nextUID + 1
  /\ triggered' = IF CreateFunc(st) THEN {p} ELSE {}
  /\ lastPass' = NoPass
  /\ podQueue' = IF CreateFunc(st) THEN podQueue \cup {p} ELSE podQueue
  /\ UNCHANGED <<diagnoses, nextName, diagQueue, watcher, reconciler, events,
                 faults, scope, cpod, cres, creason>>

\* the platform updates pod p to status st (st may be the old status: a resync)
PodUpdated(p, st) ==
  /\ pods[p].exists
  /\ pods' = [pods EXCEPT ![p].status = st]
  /\ triggered' = IF UpdateFunc(pods[p].status, st) THEN {p} ELSE {}
  /\ lastPass' = NoPass
  /\ podQueue' = IF UpdateFunc(pods[p].status, st) THEN podQueue \cup {p}
                 ELSE podQueue
  /\ UNCHANGED <<nextUID, diagnoses, nextName, diagQueue, watcher, reconciler,
                 events, faults, scope, cpod, cres, creason>>

\* the platform deletes pod p
PodDeleted(p) ==
  /\ pods[p].exists
  /\ pods' = [pods EXCEPT ![p] = NoPod]
  /\ triggered' = IF DeleteFunc THEN {p} ELSE {}
  /\ lastPass' = NoPass
  /\ podQueue' = IF DeleteFunc THEN podQueue \cup {p} ELSE podQueue
  /\ UNCHANGED <<nextUID, diagnoses, nextName, diagQueue, watcher, reconciler,
                 events, faults, scope, cpod, cres, creason>>

\* a generic event about pod p reaches the filter
PodGeneric(p) ==
  /\ pods[p].exists
  /\ triggered' = IF GenericFunc THEN {p} ELSE {}
  /\ lastPass' = NoPass
  /\ podQueue' = IF GenericFunc THEN podQueue \cup {p} ELSE podQueue
  /\ UNCHANGED <<pods, nextUID, diagnoses, nextName, diagQueue, watcher,
                 reconciler, events, faults, scope, cpod, cres, creason>>

\* the garbage collector deletes a PodDiagnosis whose owner pod is gone
OwnerGone(d) ==
  /\ diagnoses[d] # <<>>
  /\ LET o == diagnoses[d][1].owner
     IN ~(pods[o.key].exists /\ pods[o.key].uid = o.uid)

GarbageCollect(d) ==
  /\ OwnerGone(d)
  /\ diagnoses' = [diagnoses EXCEPT ![d] = <<>>]
  /\ diagQueue' = diagQueue \cup {d}
  /\ triggered' = {}
  /\ lastPass' = NoPass
  /\ UNCHANGED <<pods, nextUID, nextName, podQueue, watcher, reconciler, events,
                 faults, scope, cpod, cres, creason>>

(***************************************************************************)
(* PodWatcherReconciler.Reconcile, one step per resource-store operation.  *)
(***************************************************************************)
\* a resource-store operation may fail while the fault budget lasts
MayFail == faults < MaxFaults

\* passes that may still create a PodDiagnosis
Creating == {q \in PodKeys : watcher[q].pc \in {"list", "create"}}

\* r.List(InNamespace(ns), MatchingFields{"spec.podName": name})
List(ns, name) ==
  {d \in DiagNames :
     /\ diagnoses[d] # <<>>
     /\ diagnoses[d][1].namespace = ns
     /\ diagnoses[d][1].spec.podName = name}

\* mutant: the loop skips on a terminal diagnosis instead of a pending one
HasUnfinished_Inverted(items) ==
  \E d \in items :
     \/ diagnoses[d][1].status.phase = "Completed"
     \/ diagnoses[d][1].status.phase = "Failed"

\* the loop over diagnosisList.Items: some item is not in a terminal phase
HasUnfinished(items) ==
  \E d \in items :
     /\ diagnoses[d][1].status.phase # "Completed"
     /\ diagnoses[d][1].status.phase # "Failed"

\* mutant: the owner reference is set without the controller flag
NewDiagnosis_NotController(key, pod) ==
  [namespace |-> key[1],
   resourceVersion |-> 0,
   owner |-> [key |-> key, uid |-> pod.uid, controller |-> FALSE],
   spec |-> [podName |-> key[2],
             namespace |-> key[1],
             triggerReason |->
               <<"Pod entered failed state: ">> \o getFailureReason(pod.status),
             tailLines |-> 100],
   status |-> EmptyStatus]

\* the PodDiagnosis the watcher builds for a pod, owner reference included
NewDiagnosis(key, pod) ==
  [namespace |-> key[1],
   resourceVersion |-> 0,
   owner |-> [key |-> key, uid |-> pod.uid, controller |-> TRUE],
   spec |-> [podName |-> key[2],
             namespace |-> key[1],
             triggerReason |->
               <<"Pod entered failed state: ">> \o getFailureReason(pod.status),
             tailLines |-> 100],
   status |-> EmptyStatus]

\* r.Get of the pod, and the isPodFailed test
WatcherGet(p) ==
  /\ p \in podQueue
  /\ watcher[p].pc = "idle"
  /\ nextName + Cardinality(Creating) <= scope.diagnoses
  /\ triggered' = {}
  /\ lastPass' = NoPass
  /\ UNCHANGED <<pods, nextUID, diagnoses, nextName, diagQueue, reconciler,
                 events, scope, cpod, cres, creason>>
  /\ \/ /\ MayFail
        /\ faults' = faults + 1
        /\ watcher' = [watcher EXCEPT ![p] = [IdleWatcher EXCEPT !.ret = "err",
                                             !.errAt = "get"]]
        /\ podQueue' = podQueue
     \/ /\ ~pods[p].exists
        /\ watcher' = [watcher EXCEPT ![p] = [IdleWatcher EXCEPT !.ret = "nil"]]
        /\ podQueue' = podQueue \ {p}
        /\ UNCHANGED faults
     \/ /\ pods[p].exists
        /\ ~isPodFailed(pods[p].status)
        /\ watcher' = [watcher EXCEPT ![p] = [IdleWatcher EXCEPT !.ret = "nil"]]
        /\ podQueue' = podQueue \ {p}
        /\ UNCHANGED faults
     \/ /\ pods[p].exists
        /\ isPodFailed(pods[p].status)
        /\ watcher' = [watcher EXCEPT ![p] =
                         [IdleWatcher EXCEPT !.pc = "list", !.pod = <<pods[p]>>]]
        /\ podQueue' = podQueue \ {p}
        /\ UNCHANGED faults

\* mutant: an error of the List is logged and the pass goes on to create
WatcherList_IgnoreError(p) ==
  /\ watcher[p].pc = "list"
  /\ triggered' = {}
  /\ lastPass' = NoPass
  /\ UNCHANGED <<pods, nextUID, diagnoses, nextName, diagQueue, reconciler,
                 events, scope, cpod, cres, creason>>
  /\ \/ /\ MayFail
        /\ faults' = faults + 1
        /\ watcher' = [watcher EXCEPT ![p] =
                         [watcher[p] EXCEPT
                            !.pc = "create",
                            !.diagnosis = <<NewDiagnosis(p, watcher[p].pod[1])>>]]
        /\ UNCHANGED podQueue
     \/ /\ HasUnfinished(List(p[1], p[2]))
        /\ watcher' = [watcher EXCEPT ![p] = [IdleWatcher EXCEPT !.ret = "nil"]]
        /\ UNCHANGED <<podQueue, faults>>
     \/ /\ ~HasUnfinished(List(p[1], p[2]))
        /\ watcher' = [watcher EXCEPT ![p] =
                         [watcher[p] EXCEPT
                            !.pc = "create",
                            !.diagnosis = <<NewDiagnosis(p, watcher[p].pod[1])>>]]
        /\ UNCHANGED <<podQueue, faults>>

\* r.List of the pod's diagnoses, and the loop that skips on an unfinished one
WatcherList(p) ==
  /\ watcher[p].pc = "list"
  /\ triggered' = {}
  /\ lastPass' = NoPass
  /\ UNCHANGED <<pods, nextUID, diagnoses, nextName, diagQueue, reconciler,
                 events, scope, cpod, cres, creason>>
  /\ \/ /\ MayFail
        /\ faults' = faults + 1
        /\ watcher' = [watcher EXCEPT ![p] = [IdleWatcher EXCEPT !.ret = "err",
                                             !.errAt = "list"]]
        /\ podQueue' = podQueue \cup {p}
     \/ /\ HasUnfinished(List(p[1], p[2]))
        /\ watcher' = [watcher EXCEPT ![p] = [IdleWatcher EXCEPT !.ret = "nil"]]
        /\ UNCHANGED <<podQueue, faults>>
     \/ /\ ~HasUnfinished(List(p[1], p[2]))
        /\ watcher' = [watcher EXCEPT ![p] =
                         [watcher[p] EXCEPT
                            !.pc = "create",
                            !.diagnosis = <<NewDiagnosis(p, watcher[p].pod[1])>>]]
        /\ UNCHANGED <<podQueue, faults>>

\* r.Create of the new PodDiagnosis
WatcherCreate(p) ==
  /\ watcher[p].pc = "create"
  /\ triggered' = {}
  /\ lastPass' = NoPass
  /\ UNCHANGED <<pods, nextUID, reconciler, events, scope, cpod, cres, creason>>
  /\ \/ /\ MayFail
        /\ faults' = faults + 1
        /\ watcher' = [watcher EXCEPT ![p] = [IdleWatcher EXCEPT !.ret = "err",
                                             !.errAt = "create"]]
        /\ podQueue' = podQueue \cup {p}
        /\ UNCHANGED <<diagnoses, nextName, diagQueue>>
     \/ /\ diagnoses' = [diagnoses EXCEPT ![nextName] =
                            <<[watcher[p].diagnosis[1] EXCEPT !.resourceVersion = 1]>>]
        /\ nextName' = nextName + 1
        /\ diagQueue' = diagQueue \cup {nextName}
        /\ watcher' = [watcher EXCEPT ![p] = [IdleWatcher EXCEPT !.ret = "nil"]]
        /\ UNCHANGED <<podQueue, faults>>

(***************************************************************************)
(* PodDiagnosisReconciler.Reconcile, one step per external operation: the  *)
(* Get of the PodDiagnosis, the log stream, the AI call, the Get of the    *)
(* target pod with the event, and the status patch.                        *)
(***************************************************************************)
\* mutant: the default is not substituted for 0
EffectiveTailLines_NoDefault(n) == n

\* tailLines := int64(Spec.TailLines); if tailLines == 0 { tailLines = 100 }
EffectiveTailLines(n) == IF n = 0 THEN 100 ELSE n

\* mutant: the completion timestamp is not set when the logs fail
FailedByLogs_NoTime(diag, err) ==
  [diag EXCEPT !.status.phase = "Failed",
               !.status.rootCause = <<"getting the logs failed: ">> \o err]

\* the three places that set the status before the patch
FailedByLogs(diag, err) ==
  [diag EXCEPT !.status.phase = "Failed",
               !.status.rootCause = <<"getting the logs failed: ">> \o err,
               !.status.diagnosisTime = <<"now">>]

\* mutant: the completion timestamp is not set when the AI call fails
FailedByAI_NoTime(diag, err) ==
  [diag EXCEPT !.status.phase = "Failed",
               !.status.rootCause = <<"diagnosis failed: ">> \o err]

FailedByAI(diag, err) ==
  [diag EXCEPT !.status.phase = "Failed",
               !.status.rootCause = <<"diagnosis failed: ">> \o err,
               !.status.diagnosisTime = <<"now">>]

\* mutant: the two fields of the result are swapped
CompletedWith_Swapped(diag, res) ==
  [diag EXCEPT !.status.phase = "Completed",
               !.status.rootCause = res.suggestion,
               !.status.suggestion = res.rootCause,
               !.status.diagnosisTime = <<"now">>]

CompletedWith(diag, res) ==
  [diag EXCEPT !.status.phase = "Completed",
               !.status.rootCause = res.rootCause,
               !.status.suggestion = res.suggestion,
               !.status.diagnosisTime = <<"now">>]

\* r.Recorder.Eventf(&targetPod, Warning, "AIDiagnosisResult", ...)
DiagnosisEvent(key, res) ==
  [type |-> "Warning", reason |-> "AIDiagnosisResult", pod |-> key,
   message |-> <<"[AI root cause]: ">> \o res.rootCause
               \o <<" \n[suggestion]: ">> \o res.suggestion]

\* client.MergeFrom(base): the status fields in which the object differs
MergeFrom(base, obj) ==
  {f \in StatusFields : obj.status[f] # base.status[f]}

\* r.Status().Patch: the merge patch applied to the stored object
Patch(stored, base, obj) ==
  LET changed == MergeFrom(base, obj)
      pick(f) == IF f \in changed THEN obj.status[f] ELSE stored.status[f]
  IN [stored EXCEPT !.status =
                       [phase |-> pick("phase"), rootCause |-> pick("rootCause"),
                        suggestion |-> pick("suggestion"),
                        diagnosisTime |-> pick("diagnosisTime")],
                     !.resourceVersion = @ + 1]

\* mutant: the guard on the terminal phase is missing
SkipTerminal_Never(phase) == FALSE

\* mutant: the guard tests for Completed only
SkipTerminal_OnlyCompleted(phase) == phase = "Completed"

\* the entry guard: the phase read is Completed or Failed
SkipTerminal(phase) == phase = "Completed" \/ phase = "Failed"

\* the record of a pass of d that ends: what it did, and what it returns
PassEnd(d, r, patches, patched, ret) ==
  [name |-> d, entry |-> r.entry, site |-> r.site, world |-> r.world,
   result |-> r.result, podGet |-> r.podGet, event |-> r.event,
   logFetches |-> r.logFetches, aiCalls |-> r.aiCalls, patches |-> patches,
   patched |-> patched,
   wrote |-> IF patches = 0 THEN <<>> ELSE <<r.diagnosis[1].status>>,
   ret |-> ret]

\* r.Get of the PodDiagnosis, the entry guard, the tail-line default
ReconcileGet(d) ==
  /\ d \in diagQueue
  /\ reconciler[d].pc = "idle"
  /\ triggered' = {}
  /\ UNCHANGED <<pods, nextUID, diagnoses, nextName, podQueue, watcher, events,
                 scope, cpod, cres, creason>>
  /\ \/ /\ MayFail
        /\ faults' = faults + 1
        /\ lastPass' = PassEnd(d, IdleReconciler, 0, "none", "err")
        /\ UNCHANGED <<reconciler, diagQueue>>
     \/ /\ diagnoses[d] = <<>>
        /\ lastPass' = PassEnd(d, IdleReconciler, 0, "none", "nil")
        /\ diagQueue' = diagQueue \ {d}
        /\ UNCHANGED <<reconciler, faults>>
     \/ /\ diagnoses[d] # <<>>
        /\ SkipTerminal(diagnoses[d][1].status.phase)
        /\ lastPass' =
             PassEnd(d, [IdleReconciler EXCEPT
                           !.entry = diagnoses[d][1].status.phase],
                     0, "none", "nil")
        /\ diagQueue' = diagQueue \ {d}
        /\ UNCHANGED <<reconciler, faults>>
     \/ /\ diagnoses[d] # <<>>
        /\ ~SkipTerminal(diagnoses[d][1].status.phase)
        /\ reconciler' = [reconciler EXCEPT ![d] =
                            [IdleReconciler EXCEPT
                               !.pc = "logs",
                               !.entry = diagnoses[d][1].status.phase,
                               !.diagnosis = diagnoses[d],
                               !.tailLines =
                                 EffectiveTailLines(diagnoses[d][1].spec.tailLines)]]
        /\ lastPass' = NoPass
        /\ diagQueue' = diagQueue \ {d}
        /\ UNCHANGED faults

\* mutant: the error of getPodLogs is not tested, the pass goes on to the AI
\* call with whatever was read
ReconcileLogs_IgnoreError(d) ==
  /\ reconciler[d].pc = "logs"
  /\ triggered' = {}
  /\ lastPass' = NoPass
  /\ UNCHANGED <<pods, nextUID, diagnoses, nextName, podQueue, diagQueue,
                 watcher, events, faults, scope, cpod, cres, creason>>
  /\ \E stream \in scope.streams :
       LET r == reconciler[d]
           got == getPodLogs(stream, r.tailLines)
       IN reconciler' = [reconciler EXCEPT ![d] =
            [r EXCEPT !.pc = "ai", !.logFetches = @ + 1,
                      !.requested = got.opts.tailLines,
                      !.fetched = IF got.err = <<>> THEN "ok" ELSE "err",
                      !.logs = got.logs]]

\* r.getPodLogs, and on its error the Failed status
ReconcileLogs(d) ==
  /\ reconciler[d].pc = "logs"
  /\ triggered' = {}
  /\ lastPass' = NoPass
  /\ UNCHANGED <<pods, nextUID, diagnoses, nextName, podQueue, diagQueue,
                 watcher, events, faults, scope, cpod, cres, creason>>
  /\ \E stream \in scope.streams :
       LET r == reconciler[d]
           got == getPodLogs(stream, r.tailLines)
       IN \/ /\ got.err # <<>>
             /\ reconciler' = [reconciler EXCEPT ![d] =
                  [r EXCEPT !.pc = "patch", !.site = "logs",
                            !.logFetches = @ + 1,
                            !.requested = got.opts.tailLines,
                            !.fetched = "err",
                            !.base = r.diagnosis,
                            !.diagnosis = <<FailedByLogs(r.diagnosis[1], got.err)>>]]
          \/ /\ got.err = <<>>
             /\ reconciler' = [reconciler EXCEPT ![d] =
                  [r EXCEPT !.pc = "ai", !.logFetches = @ + 1,
                            !.requested = got.opts.tailLines,
                            !.fetched = "ok",
                            !.logs = got.logs]]

\* callAIEndpoint, and on its error the Failed status
ReconcileAI(d) ==
  /\ reconciler[d].pc = "ai"
  /\ triggered' = {}
  /\ lastPass' = NoPass
  /\ UNCHANGED <<pods, nextUID, diagnoses, nextName, podQueue, diagQueue,
                 watcher, events, faults, scope, cpod, cres, creason>>
  /\ \E w \in scope.worlds :
       LET got == callAIEndpoint(w)
           r == reconciler[d]
       IN \/ /\ got.err # <<>>
             /\ reconciler' = [reconciler EXCEPT ![d] =
                  [r EXCEPT !.pc = "patch", !.site = "ai",
                            !.aiCalls = @ + 1, !.world = <<w>>,
                            !.base = r.diagnosis,
                            !.diagnosis = <<FailedByAI(r.diagnosis[1], got.err)>>]]
          \/ /\ got.err = <<>>
             /\ reconciler' = [reconciler EXCEPT ![d] =
                  [r EXCEPT !.pc = "event", !.aiCalls = @ + 1,
                            !.world = <<w>>, !.result = got.result]]

\* mutant: a target pod that cannot be read fails the diagnosis
AfterPodGet_FailOnMissing(r, key, got) ==
  IF got = "found"
  THEN [r EXCEPT !.pc = "patch", !.site = "completed", !.podGet = got,
                 !.event = <<DiagnosisEvent(key, r.result[1])>>,
                 !.base = r.diagnosis,
                 !.diagnosis = <<CompletedWith(r.diagnosis[1], r.result[1])>>]
  ELSE [r EXCEPT !.pc = "patch", !.site = "completed", !.podGet = got,
                 !.base = r.diagnosis,
                 !.diagnosis =
                   <<FailedByAI(r.diagnosis[1], <<"target pod not found">>)>>]

\* the locals after the Get of the target pod: the event only when the pod was
\* read, the Completed status in either case
AfterPodGet(r, key, got) ==
  [r EXCEPT !.pc = "patch", !.site = "completed", !.podGet = got,
            !.event = IF got = "found"
                      THEN <<DiagnosisEvent(key, r.result[1])>>
                      ELSE <<>>,
            !.base = r.diagnosis,
            !.diagnosis = <<CompletedWith(r.diagnosis[1], r.result[1])>>]

\* r.Get of the target pod, the event when it is there, the Completed status
ReconcileEvent(d) ==
  /\ reconciler[d].pc = "event"
  /\ triggered' = {}
  /\ lastPass' = NoPass
  /\ UNCHANGED <<pods, nextUID, diagnoses, nextName, podQueue, diagQueue,
                 watcher, scope, cpod, cres, creason>>
  /\ LET r == reconciler[d]
         key == <<r.diagnosis[1].spec.namespace, r.diagnosis[1].spec.podName>>
     IN \/ /\ MayFail
           /\ faults' = faults + 1
           /\ reconciler' = [reconciler EXCEPT ![d] = AfterPodGet(r, key, "error")]
           /\ UNCHANGED events
        \/ /\ ~pods[key].exists
           /\ reconciler' = [reconciler EXCEPT ![d] = AfterPodGet(r, key, "absent")]
           /\ UNCHANGED <<events, faults>>
        \/ /\ pods[key].exists
           /\ reconciler' = [reconciler EXCEPT ![d] = AfterPodGet(r, key, "found")]
           /\ events' = [events EXCEPT ![d] = @ + 1]
           /\ UNCHANGED faults

\* what Reconcile returns after the patch at a site
ReturnAfterPatch(site, ok) ==
  IF site = "completed" /\ ~ok THEN "err" ELSE "nil"

\* r.Status().Patch(ctx, &diagnosis, client.MergeFrom(base)), and the return
ReconcilePatch(d) ==
  /\ reconciler[d].pc = "patch"
  /\ triggered' = {}
  /\ reconciler' = [reconciler EXCEPT ![d] = IdleReconciler]
  /\ UNCHANGED <<pods, nextUID, nextName, podQueue, watcher, events, scope, cpod, cres, creason>>
  /\ LET r == reconciler[d]
         failed == PassEnd(d, r, 1, "err", ReturnAfterPatch(r.site, FALSE))
     IN \/ /\ MayFail
           /\ faults' = faults + 1
           /\ lastPass' = failed
           /\ diagQueue' = IF failed.ret = "err" THEN diagQueue \cup {d}
                           ELSE diagQueue
           /\ UNCHANGED diagnoses
        \/ /\ diagnoses[d] = <<>>
           /\ lastPass' = failed
           /\ diagQueue' = IF failed.ret = "err" THEN diagQueue \cup {d}
                           ELSE diagQueue
           /\ UNCHANGED <<diagnoses, faults>>
        \/ /\ diagnoses[d] # <<>>
           /\ diagnoses' = [diagnoses EXCEPT ![d] =
                              <<Patch(diagnoses[d][1], r.base[1], r.diagnosis[1])>>]
           /\ lastPass' = PassEnd(d, r, 1, "ok", ReturnAfterPatch(r.site, TRUE))
           /\ diagQueue' = diagQueue \cup {d}
           /\ UNCHANGED faults

\* another writer edits a stored PodDiagnosis by hand: spec.tailLines gets
\* the value n, the store gives the object its next resourceVersion, and the
\* update reaches the reconciler's queue
ManualEdit(d, n) ==
  /\ diagnoses[d] # <<>>
  /\ diagnoses[d][1].resourceVersion <= MaxEdits
  /\ diagnoses[d][1].spec.tailLines # n
  /\ diagnoses' = [diagnoses EXCEPT ![d] =
                     <<[diagnoses[d][1] EXCEPT !.spec.tailLines = n,
                                               !.resourceVersion = @ + 1]>>]
  /\ diagQueue' = diagQueue \cup {d}
  /\ triggered' = {}
  /\ lastPass' = NoPass
  /\ UNCHANGED <<pods, nextUID, nextName, podQueue, watcher, reconciler, events,
                 faults, scope, cpod, cres, creason>>

\* the delivery layer hands a stored PodDiagnosis to the reconciler again
Redeliver(d) ==
  /\ diagnoses[d] # <<>>
  /\ d \notin diagQueue
  /\ diagQueue' = diagQueue \cup {d}
  /\ triggered' = {}
  /\ lastPass' = NoPass
  /\ UNCHANGED <<pods, nextUID, diagnoses, nextName, podQueue, watcher,
                 reconciler, events, faults, scope, cpod, cres, creason>>

Next ==
  \/ \E p \in PodKeys, st \in ClusterPodStatuses : PodCreated(p, st)
  \/ \E p \in PodKeys, st \in ClusterPodStatuses : PodUpdated(p, st)
  \/ \E p \in PodKeys : PodDeleted(p)
  \/ \E p \in PodKeys : PodGeneric(p)
  \/ \E d \in DiagNames : GarbageCollect(d)
  \/ \E p \in PodKeys : WatcherGet(p)
  \/ \E p \in PodKeys : WatcherList(p)
  \/ \E p \in PodKeys : WatcherCreate(p)
  \/ \E d \in DiagNames : ReconcileGet(d)
  \/ \E d \in DiagNames : ReconcileLogs(d)
  \/ \E d \in DiagNames : ReconcileAI(d)
  \/ \E d \in DiagNames : ReconcileEvent(d)
  \/ \E d \in DiagNames : ReconcilePatch(d)
  \/ \E d \in DiagNames, n \in TailLineValues : ManualEdit(d, n)
  \/ \E d \in DiagNames : Redeliver(d)

Spec == Init /\ [][Next]_vars

(***************************************************************************)
(* The same system under a fair delivery layer: a queued PodDiagnosis is   *)
(* handed to the reconciler, and a pass that has begun runs to its end.    *)
(* Store failures are transient: MaxFaults bounds them.  Nothing obliges   *)
(* the platform to change pods, to edit objects or to deliver an object    *)
(* that no pass has put back into the queue.                               *)
(***************************************************************************)
InitLive == Init /\ scope = EveryOutcome

Fairness ==
  \A d \in DiagNames :
    /\ WF_vars(ReconcileGet(d))
    /\ WF_vars(ReconcileLogs(d))
    /\ WF_vars(ReconcileAI(d))
    /\ WF_vars(ReconcileEvent(d))
    /\ WF_vars(ReconcilePatch(d))

SpecLive == InitLive /\ [][Next]_vars /\ Fairness

(***************************************************************************)
(* Classification of one pod status: isPodFailed applied to an input drawn *)
(* from PodStatuses.                                                       *)
(***************************************************************************)
InitClassify ==
  /\ pods = [p \in PodKeys |-> NoPod]
  /\ nextUID = 1
  /\ diagnoses = [d \in DiagNames |-> <<>>]
  /\ nextName = 1
  /\ podQueue = {}
  /\ diagQueue = {}
  /\ watcher = [p \in PodKeys |-> IdleWatcher]
  /\ reconciler = [d \in DiagNames |-> IdleReconciler]
  /\ triggered = {}
  /\ lastPass = NoPass
  /\ events = [d \in DiagNames |-> 0]
  /\ faults = 0
  /\ scope = EveryOutcome
  /\ cpod \in PodStatuses
  /\ cres = <<>>
  /\ creason = <<>>

Classify ==
  /\ cres = <<>>
  /\ cres' = <<isPodFailed(cpod)>>
  /\ UNCHANGED <<pods, nextUID, diagnoses, nextName, podQueue, diagQueue,
                 watcher, reconciler, triggered, lastPass, events, faults, scope, cpod,
                 creason>>

NextClassify == Classify

SpecClassify == InitClassify /\ [][NextClassify]_vars

(***************************************************************************)
(* The trigger reason of one pod status: the isPodFailed test of the       *)
(* watcher, and for a failed pod the reason it puts into the new           *)
(* PodDiagnosis.                                                           *)
(***************************************************************************)
Summarize ==
  /\ cres = <<TRUE>>
  /\ creason = <<>>
  /\ creason' =
       <<NewDiagnosis(<<"prod", "web">>,
                      [exists |-> TRUE, uid |-> 1, status |-> cpod]).spec.triggerReason>>
  /\ UNCHANGED <<pods, nextUID, diagnoses, nextName, podQueue, diagQueue,
                 watcher, reconciler, triggered, lastPass, events, faults, scope,
                 cpod, cres>>

NextReason == Classify \/ Summarize

SpecReason == InitClassify /\ [][NextReason]_vars

(***************************************************************************)
(* Properties of the pod watcher and of the PodDiagnosis reconciler.       *)
(***************************************************************************)
Stored == {d \in DiagNames : diagnoses[d] # <<>>}

\* the stored diagnoses of pod <<ns, name>> that are in no terminal phase
Unfinished(ns, name) ==
  {d \in Stored :
     /\ diagnoses[d][1].spec.podName = name
     /\ diagnoses[d][1].spec.namespace = ns
     /\ diagnoses[d][1].status.phase \notin {"Completed", "Failed"}}

\* C1: in every reachable state, each (target pod name, namespace) pair has at
\* most one stored PodDiagnosis whose phase is neither Completed nor Failed,
\* whatever the interleaving of watcher passes, repeated triggers and
\* reconciler passes.
C1_AtMostOneUnfinished ==
  \A d \in Stored :
    Cardinality(Unfinished(diagnoses[d][1].spec.namespace,
                           diagnoses[d][1].spec.podName)) <= 1

\* a second diagnosis of the same pod is pending while the first is terminal
C1_Witness ==
  \E d1, d2 \in Stored :
    /\ d1 # d2
    /\ diagnoses[d1][1].spec = diagnoses[d2][1].spec
    /\ diagnoses[d1][1].status.phase \in {"Completed", "Failed"}
    /\ diagnoses[d2][1].status.phase = ""

\* C2: the stored phase of a PodDiagnosis is "", Completed or Failed, and once
\* it is Completed or Failed no step changes it.
C2_PhaseStep ==
  \A d \in DiagNames :
    /\ diagnoses'[d] # <<>> =>
         diagnoses'[d][1].status.phase \in {"", "Completed", "Failed"}
    /\ (/\ diagnoses[d] # <<>>
        /\ diagnoses[d][1].status.phase \in {"Completed", "Failed"}
        /\ diagnoses'[d] # <<>>)
       => diagnoses'[d][1].status.phase = diagnoses[d][1].status.phase

C3_TerminalPassIsNoOp ==
  lastPass.entry \in {"Completed", "Failed"} =>
    /\ lastPass.logFetches = 0
    /\ lastPass.aiCalls = 0
    /\ lastPass.event = <<>>
    /\ lastPass.patches = 0
    /\ lastPass.wrote = <<>>
    /\ lastPass.ret = "nil"
    /\ reconciler[lastPass.name].pc = "idle"

\* a pass has just run on a Completed PodDiagnosis
C3_Witness ==
  /\ lastPass.entry = "Completed"
  /\ lastPass.ret = "nil"
  /\ diagnoses[lastPass.name] # <<>>

\* the step takes pod p from not failed (or not there) to failed
RisingEdge(p) ==
  /\ pods'[p].exists
  /\ isPodFailed(pods'[p].status)
  /\ pods[p].exists => ~isPodFailed(pods[p].status)

\* C4: the event filter lets a pod through on exactly the steps that create
\* it failed or update it from not failed to failed; deletions, generic
\* events and updates of a pod that stays failed let nothing through. What
\* is let through is in the watcher's queue.
C4_TriggerStep ==
  \A p \in PodKeys :
    /\ p \in triggered' <=> RisingEdge(p)
    /\ p \in triggered' => p \in podQueue'

C4_TriggerOnRisingEdge == [][C4_TriggerStep]_vars

\* the filter has just let a failed pod through
C4_Witness ==
  \E p \in PodKeys :
    /\ p \in triggered
    /\ pods[p].exists
    /\ isPodFailed(pods[p].status)
    /\ p \in podQueue

\* the status a pass has just written is the status the store holds
StoredAsWritten ==
  lastPass.patched = "ok" =>
    /\ diagnoses[lastPass.name] # <<>>
    /\ diagnoses[lastPass.name][1].status = lastPass.wrote[1]

\* the errors of the log stream: it does not open, or it does not read
LogErrors ==
  {<<"opening the log stream failed: ", "stream error">>,
   <<"reading the log content failed: ", "read error">>}

\* C7: a pass on a pending PodDiagnosis whose log retrieval fails sends one
\* status write with phase Failed, a root cause that describes the log error
\* and a completion timestamp, which the store holds once the write is
\* applied; the pass makes no AI call and emits no event.
C7_LogFailure ==
  lastPass.site = "logs" =>
    /\ lastPass.entry = ""
    /\ lastPass.logFetches = 1
    /\ lastPass.patches = 1
    /\ lastPass.wrote[1].phase = "Failed"
    /\ \E e \in LogErrors :
         lastPass.wrote[1].rootCause = <<"getting the logs failed: ">> \o e
    /\ lastPass.wrote[1].diagnosisTime # <<>>
    /\ StoredAsWritten
    /\ lastPass.aiCalls = 0
    /\ lastPass.world = <<>>
    /\ lastPass.event = <<>>

\* a pass whose log stream failed has just written Failed to the store
C7_Witness ==
  /\ lastPass.site = "logs"
  /\ lastPass.patched = "ok"
  /\ diagnoses[lastPass.name][1].status.phase = "Failed"
  /\ diagnoses[lastPass.name][1].status.rootCause[1] = "getting the logs failed: "

\* the AI calls that go wrong: a variable not set, the network, the timeout,
\* a status other than 200, no choice, a content that is no JSON
ErrorWorld(w) ==
  \/ w.apiKey = ""
  \/ w.apiURL = ""
  \/ w.transport # "ok"
  \/ w.statusCode # 200
  \/ ~w.body.json
  \/ Len(w.body.choices) = 0
  \/ ~w.body.choices[1].json

\* C8: a pass on a pending PodDiagnosis whose AI call goes wrong in any of
\* these ways sends one status write with phase Failed and a root cause made
\* of the error, which the store holds once the write is applied; the pass
\* records no event and makes exactly one AI call.
C8_AIFailure ==
  /\ (lastPass.world # <<>> /\ ErrorWorld(lastPass.world[1])) =>
       lastPass.site = "ai"
  /\ lastPass.site = "ai" =>
       /\ lastPass.entry = ""
       /\ ErrorWorld(lastPass.world[1])
       /\ lastPass.patches = 1
       /\ lastPass.wrote[1].phase = "Failed"
       /\ Len(lastPass.wrote[1].rootCause) > 1
       /\ lastPass.wrote[1].rootCause[1] = "diagnosis failed: "
       /\ lastPass.wrote[1].diagnosisTime # <<>>
       /\ StoredAsWritten
       /\ lastPass.event = <<>>
       /\ lastPass.podGet = "none"
       /\ lastPass.aiCalls = 1
  /\ \A d \in DiagNames :
       (reconciler[d].world # <<>> /\ ErrorWorld(reconciler[d].world[1])) =>
         /\ reconciler[d].pc = "patch"
         /\ reconciler[d].site = "ai"
         /\ reconciler[d].event = <<>>

\* a pass whose AI call met status 500 has just written Failed to the store
C8_Witness ==
  /\ lastPass.site = "ai"
  /\ lastPass.world[1].statusCode = 500
  /\ lastPass.patched = "ok"
  /\ events[lastPass.name] = 0
  /\ diagnoses[lastPass.name][1].status.phase = "Failed"

\* the value of a key in the content of the first choice of a reply
Returned(w, key) ==
  LET kvs == {kv \in w.body.choices[1].fields : kv[1] = key}
  IN IF kvs = {} THEN <<>> ELSE <<(CHOOSE kv \in kvs : TRUE)[2]>>

\* the Completed status made of the reply of the AI call
CompletedFrom(w, st) ==
  /\ st.phase = "Completed"
  /\ st.rootCause = Returned(w, "rootCause")
  /\ st.suggestion = Returned(w, "suggestion")
  /\ st.diagnosisTime # <<>>

\* C9: when the logs are read, the AI call succeeds and the target pod is
\* read, the pass emits a Warning event with reason AIDiagnosisResult on the
\* pod, and after that sends the status write with phase Completed, the root
\* cause and the suggestion of the reply and a completion timestamp, which
\* the store holds once the write is applied.
C9_Success ==
  /\ \A d \in DiagNames :
       (reconciler[d].pc = "patch" /\ reconciler[d].podGet = "found") =>
         /\ reconciler[d].event # <<>>
         /\ events[d] >= 1
  /\ (lastPass.site = "completed" /\ lastPass.podGet = "found") =>
       /\ lastPass.entry = ""
       /\ lastPass.logFetches = 1
       /\ lastPass.aiCalls = 1
       /\ ~ErrorWorld(lastPass.world[1])
       /\ Len(lastPass.event) = 1
       /\ lastPass.event[1].type = "Warning"
       /\ lastPass.event[1].reason = "AIDiagnosisResult"
       /\ diagnoses[lastPass.name] # <<>> =>
            lastPass.event[1].pod =
              <<diagnoses[lastPass.name][1].spec.namespace,
                diagnoses[lastPass.name][1].spec.podName>>
       /\ events[lastPass.name] >= 1
       /\ lastPass.patches = 1
       /\ CompletedFrom(lastPass.world[1], lastPass.wrote[1])
       /\ StoredAsWritten

\* a pass has just emitted the event and written Completed with "X" and "Y"
C9_Witness ==
  /\ lastPass.site = "completed"
  /\ lastPass.podGet = "found"
  /\ lastPass.patched = "ok"
  /\ events[lastPass.name] = 1
  /\ diagnoses[lastPass.name][1].status.phase = "Completed"
  /\ diagnoses[lastPass.name][1].status.rootCause = <<"X">>
  /\ diagnoses[lastPass.name][1].status.suggestion = <<"Y">>

\* C10: when the target pod cannot be read after a successful AI call, the
\* pass emits no event and still sends the status write with phase Completed
\* and the root cause and suggestion of the reply, which the store holds once
\* the write is applied; the pass then returns nil, and it returns an error
\* only when the status write itself fails.
C10_PodGone ==
  (lastPass.site = "completed" /\ lastPass.podGet \in {"absent", "error"}) =>
    /\ lastPass.event = <<>>
    /\ lastPass.patches = 1
    /\ CompletedFrom(lastPass.world[1], lastPass.wrote[1])
    /\ StoredAsWritten
    /\ lastPass.ret = "err" <=> lastPass.patched = "err"

\* the pod was deleted before the event; the pass has just written Completed
\* and no event was recorded
C10_Witness ==
  /\ lastPass.site = "completed"
  /\ lastPass.podGet = "absent"
  /\ lastPass.patched = "ok"
  /\ lastPass.ret = "nil"
  /\ events[lastPass.name] = 0
  /\ diagnoses[lastPass.name][1].status.phase = "Completed"
  /\ diagnoses[lastPass.name][1].status.rootCause = <<"X">>

(***************************************************************************)
(* Properties of isPodFailed, under SpecClassify.                          *)
(***************************************************************************)
FailingWaitReasons ==
  {"ImagePullBackOff", "ErrImagePull", "CrashLoopBackOff", "CreateContainerError"}

Indices(seq) == 1..Len(seq)

\* rule 1: the phase is Failed
Rule1(pod) == pod.phase = "Failed"

\* rule 2: the phase is Pending, and a PodScheduled condition is False with
\* reason Unschedulable or a container waits with one of the four reasons
Rule2(pod) ==
  /\ pod.phase = "Pending"
  /\ \/ \E i \in Indices(pod.conditions) :
          /\ pod.conditions[i].type = "PodScheduled"
          /\ pod.conditions[i].status = "False"
          /\ pod.conditions[i].reason = "Unschedulable"
     \/ \E i \in Indices(pod.containerStatuses) :
          /\ pod.containerStatuses[i].waiting # <<>>
          /\ pod.containerStatuses[i].waiting[1].reason \in FailingWaitReasons

\* rule 3: every container has terminated and some exit code is not zero, or
\* a container that has not terminated waits with CrashLoopBackOff or
\* CreateContainerError
Rule3(pod) ==
  \/ /\ \A i \in Indices(pod.containerStatuses) :
          pod.containerStatuses[i].terminated # <<>>
     /\ \E i \in Indices(pod.containerStatuses) :
          /\ pod.containerStatuses[i].terminated # <<>>
          /\ pod.containerStatuses[i].terminated[1].exitCode # 0
  \/ \E i \in Indices(pod.containerStatuses) :
       /\ pod.containerStatuses[i].terminated = <<>>
       /\ pod.containerStatuses[i].waiting # <<>>
       /\ pod.containerStatuses[i].waiting[1].reason \in
            {"CrashLoopBackOff", "CreateContainerError"}

\* C5: for every pod status, isPodFailed returns true iff rule 1, rule 2 or
\* rule 3 holds of it.
C5_FailedIffRules ==
  cres # <<>> => (cres[1] <=> (Rule1(cpod) \/ Rule2(cpod) \/ Rule3(cpod)))

\* a Running pod classified failed by rule 3 alone: two containers, both
\* terminated, one of them with a non-zero exit code
C5_Witness ==
  /\ cres = <<TRUE>>
  /\ cpod.phase = "Running"
  /\ Len(cpod.containerStatuses) = 2
  /\ \A i \in Indices(cpod.containerStatuses) :
       cpod.containerStatuses[i].terminated # <<>>
  /\ \E i \in Indices(cpod.containerStatuses) :
       cpod.containerStatuses[i].terminated[1].exitCode = 0

\* every container has terminated and every exit code is zero
AllExitedZero(pod) ==
  \A i \in Indices(pod.containerStatuses) :
    /\ pod.containerStatuses[i].terminated # <<>>
    /\ pod.containerStatuses[i].terminated[1].exitCode = 0

\* C6 as stated: a pod whose containers have all terminated with exit code
\* zero is never classified failed, whatever its phase and conditions.
C6_AsStated ==
  (cres # <<>> /\ AllExitedZero(cpod)) => cres[1] = FALSE

\* C6 as amended: a pod whose containers have all terminated with exit code
\* zero is not classified failed unless its phase is Failed, or its phase is
\* Pending and rule 2 holds of it (an Unschedulable PodScheduled=False
\* condition, or a container status that also carries a waiting state with
\* one of the four reasons).
C6_ExitedZeroNotFailed ==
  (/\ cres # <<>>
   /\ AllExitedZero(cpod)
   /\ ~Rule1(cpod)
   /\ ~Rule2(cpod))
  => cres[1] = FALSE

\* a Succeeded pod with two containers that exited with code zero, classified
\* not failed
C6_Witness ==
  /\ cres = <<FALSE>>
  /\ cpod.phase = "Succeeded"
  /\ Len(cpod.containerStatuses) = 2
  /\ AllExitedZero(cpod)

(***************************************************************************)
(* Properties of the trigger reason, under SpecReason.                     *)
(***************************************************************************)
\* the failure signals the trigger reason is to summarise
CrashLoopSignal(pod) ==
  \E i \in Indices(pod.containerStatuses) :
    /\ pod.containerStatuses[i].waiting # <<>>
    /\ pod.containerStatuses[i].waiting[1].reason = "CrashLoopBackOff"

UnschedulableSignal(pod, i) ==
  /\ pod.conditions[i].type = "PodScheduled"
  /\ pod.conditions[i].status = "False"
  /\ pod.conditions[i].reason = "Unschedulable"

ExitSignal(pod, i) ==
  /\ pod.containerStatuses[i].terminated # <<>>
  /\ pod.containerStatuses[i].terminated[1].exitCode # 0

NoSignal(pod) ==
  /\ ~CrashLoopSignal(pod)
  /\ \A i \in Indices(pod.conditions) : ~UnschedulableSignal(pod, i)
  /\ \A i \in Indices(pod.containerStatuses) : ~ExitSignal(pod, i)

\* the text has the part in it
Contains(text, part) == \E i \in Indices(text) : text[i] = part

\* "container X exited with code N: reason" of the container at position i
ExitText(pod, i) ==
  <<"Container ", pod.containerStatuses[i].name, " exited with code ",
    fmtInt(pod.containerStatuses[i].terminated[1].exitCode), ": ",
    pod.containerStatuses[i].terminated[1].reason>>

\* C14 as stated: the trigger reason of a new PodDiagnosis summarises a failure
\* signal the pod carries: it contains "CrashLoopBackOff" for a container
\* waiting in CrashLoopBackOff, or the message of an Unschedulable scheduling
\* condition, or it is "container X exited with code N: reason" for a
\* container with a non-zero exit code; it is "unknown failure" only when the
\* pod carries none of these signals.
C14_AsStated ==
  creason # <<>> =>
    \/ /\ CrashLoopSignal(cpod)
       /\ Contains(creason[1], "CrashLoopBackOff")
    \/ \E i \in Indices(cpod.conditions) :
         /\ UnschedulableSignal(cpod, i)
         /\ Contains(creason[1], cpod.conditions[i].message)
    \/ \E i \in Indices(cpod.containerStatuses) :
         /\ ExitSignal(cpod, i)
         /\ creason[1] = <<"Pod entered failed state: ">> \o ExitText(cpod, i)
    \/ /\ NoSignal(cpod)
       /\ creason[1] = <<"Pod entered failed state: ", "unknown failure">>

(***************************************************************************)
(* Properties of the status patch against concurrent writers.              *)
(***************************************************************************)
\* the step writes the status of the stored PodDiagnosis d
StatusWritten(d) ==
  /\ diagnoses[d] # <<>>
  /\ diagnoses'[d] # <<>>
  /\ diagnoses'[d][1].status # diagnoses[d][1].status

\* C12 as stated: a status patch is applied only to the version of the
\* PodDiagnosis that the pass read: when another writer has changed the
\* object since the pass read it, the store rejects the patch and the status
\* stays as it is until a later pass.
C12_PatchStep ==
  \A d \in DiagNames :
    StatusWritten(d) =>
      /\ reconciler[d].diagnosis # <<>>
      /\ reconciler[d].diagnosis[1].resourceVersion =
           diagnoses[d][1].resourceVersion

C12_AsStated == [][C12_PatchStep]_vars

(***************************************************************************)
(* Properties of the handling of resource-store failures.                  *)
(***************************************************************************)
\* the step is a pod watcher pass in which Get, List or Create failed
WatcherStoreFailure ==
  /\ faults' = faults + 1
  /\ reconciler' = reconciler
  /\ lastPass' = NoPass

\* the step ends a reconciler pass in which the Get of the PodDiagnosis or the
\* status patch failed
ReconcilerStoreFailure ==
  /\ lastPass' # NoPass
  /\ \/ lastPass'.patched = "err"
     \/ faults' = faults + 1

\* C11 as stated: every failure of a resource-store operation of a pass (the
\* Get, List and Create of the pod watcher; the Get of the PodDiagnosis and
\* the status patch of the reconciler, at the Completed site and at both
\* Failed sites) makes the pass return the error, puts the object back into
\* the queue, and leaves the stored objects as they were.
C11_Step ==
  /\ WatcherStoreFailure =>
       /\ \E p \in PodKeys :
            /\ watcher'[p].pc = "idle"
            /\ watcher'[p].ret = "err"
            /\ p \in podQueue'
       /\ diagnoses' = diagnoses
  /\ ReconcilerStoreFailure =>
       /\ lastPass'.ret = "err"
       /\ lastPass'.name \in diagQueue'
       /\ diagnoses' = diagnoses

C11_AsStated == [][C11_Step]_vars

(***************************************************************************)
(* Progress of a PodDiagnosis, under SpecLive.                             *)
(***************************************************************************)
TerminalOrGone(d) ==
  \/ diagnoses[d] = <<>>
  \/ diagnoses[d][1].status.phase \in {"Completed", "Failed"}

\* C13 as stated: with a fair delivery layer and store failures that are
\* only transient, every stored PodDiagnosis is eventually deleted or reaches
\* phase Completed or Failed.
C13_AsStated ==
  \A d \in DiagNames : (diagnoses[d] # <<>>) ~> TerminalOrGone(d)

(***************************************************************************)
(* Properties of the passes of the pod watcher.                            *)
(***************************************************************************)
\* the step is the List, or the Create, of the pass on pod p
ListStep(p) == watcher[p].pc = "list" /\ watcher'[p] # watcher[p]

CreateStep(p) == watcher[p].pc = "create" /\ watcher'[p] # watcher[p]

\* the names under which the step stores a new PodDiagnosis
Created == {d \in DiagNames : diagnoses[d] = <<>> /\ diagnoses'[d] # <<>>}

\* the stored object is a new request for pod p: pending, the spec that of the
\* pod, 100 tail lines, the pod as controlling owner
RequestFor(obj, p, uid) ==
  /\ obj.status = EmptyStatus
  /\ obj.namespace = p[1]
  /\ obj.spec.podName = p[2]
  /\ obj.spec.namespace = p[1]
  /\ obj.spec.tailLines = 100
  /\ obj.owner = [key |-> p, uid |-> uid, controller |-> TRUE]

\* C15: a watcher pass gets to its List only on a failed pod.  When the List
\* shows a request of the pod in a non-terminal phase the pass ends without a
\* Create.  When it shows none, or only Completed and Failed ones, and the
\* store operations succeed, the pass goes on to its Create, which stores
\* exactly one new PodDiagnosis: pending, spec.podName and spec.namespace
\* those of the pod, tailLines 100, the pod as controlling owner; at that
\* moment the pod has no other request in a non-terminal phase.  Nothing else
\* stores a new PodDiagnosis.
C15_Step ==
  /\ \A p \in PodKeys :
       /\ watcher[p].pc \in {"list", "create"} =>
            isPodFailed(watcher[p].pod[1].status)
       /\ (ListStep(p) /\ Unfinished(p[1], p[2]) # {}) =>
            /\ watcher'[p].pc = "idle"
            /\ Created = {}
       /\ (ListStep(p) /\ Unfinished(p[1], p[2]) = {} /\ faults' = faults) =>
            /\ watcher'[p].pc = "create"
            /\ Created = {}
       /\ (CreateStep(p) /\ faults' = faults) =>
            /\ Cardinality(Created) = 1
            /\ \A d \in Created :
                 RequestFor(diagnoses'[d][1], p, watcher[p].pod[1].uid)
            /\ \A d \in DiagNames \ Created : diagnoses'[d] = diagnoses[d]
            /\ Unfinished(p[1], p[2]) = {}
            /\ watcher'[p].pc = "idle"
            /\ watcher'[p].ret = "nil"
  /\ Created # {} => \E p \in PodKeys : CreateStep(p)

C15_OneRequestPerPass == [][C15_Step]_vars

\* a pass has just created a second request for a pod whose first request is
\* Completed: pending, 100 tail lines, owned by the pod
C15_Witness ==
  \E d1, d2 \in Stored :
    /\ d1 # d2
    /\ diagnoses[d1][1].status.phase = "Completed"
    /\ diagnoses[d2][1].resourceVersion = 1
    /\ RequestFor(diagnoses[d2][1], diagnoses[d1][1].owner.key,
                  pods[diagnoses[d1][1].owner.key].uid)
    /\ watcher[diagnoses[d2][1].owner.key].ret = "nil"
    /\ d2 \in diagQueue

(***************************************************************************)
(* Properties of the steps of a reconciler pass.                           *)
(***************************************************************************)
\* C16: the tail-line count a pass puts into the options of its log request
\* is spec.tailLines of the PodDiagnosis it read when that is not 0, and 100
\* when it is 0; a pass that has not asked for logs has put no count.
C16_TailLines ==
  \A d \in DiagNames :
    LET r == reconciler[d]
    IN /\ r.logFetches = 0 => r.requested = <<>>
       /\ r.logFetches > 0 =>
            /\ r.diagnosis[1].spec.tailLines # 0 =>
                 r.requested = <<r.diagnosis[1].spec.tailLines>>
            /\ r.diagnosis[1].spec.tailLines = 0 => r.requested = <<100>>

\* one pass has asked for 100 lines of a request with tailLines 0 while
\* another has asked for 50 lines of a request with tailLines 50
C16_Witness ==
  \E d1, d2 \in DiagNames :
    /\ reconciler[d1].logFetches = 1
    /\ reconciler[d1].diagnosis[1].spec.tailLines = 0
    /\ reconciler[d1].requested = <<100>>
    /\ reconciler[d2].logFetches = 1
    /\ reconciler[d2].diagnosis[1].spec.tailLines = 50
    /\ reconciler[d2].requested = <<50>>

\* the status of every stored PodDiagnosis in a terminal phase has a
\* completion timestamp, and that of every pending one is empty
StoredWhole(needsRootCause) ==
  \A d \in Stored :
    LET st == diagnoses[d][1].status
    IN /\ st.phase \in {"Completed", "Failed"} =>
            /\ st.diagnosisTime # <<>>
            /\ (needsRootCause \/ st.phase = "Failed") => st.rootCause # <<>>
       /\ st.phase \notin {"Completed", "Failed"} => st = EmptyStatus

C18_StepOrder ==
  /\ \A d \in DiagNames :
       LET r == reconciler[d]
       IN /\ r.logFetches <= 1
          /\ r.aiCalls <= 1
          /\ (r.pc = "logs" \/ r.logFetches > 0) =>
               /\ r.entry \notin {"Completed", "Failed", "none"}
               /\ r.diagnosis # <<>>
          /\ (r.pc = "ai" \/ r.aiCalls > 0) =>
               /\ r.logFetches = 1
               /\ r.fetched = "ok"
          /\ (r.pc = "event" \/ r.podGet # "none" \/ r.event # <<>>) =>
               /\ r.aiCalls = 1
               /\ r.result # <<>>
               /\ callAIEndpoint(r.world[1]).err = <<>>
          /\ r.pc = "patch" =>
               /\ r.site = "logs" =>
                    r.fetched = "err" /\ r.aiCalls = 0 /\ r.podGet = "none"
               /\ r.site = "ai" =>
                    /\ r.fetched = "ok"
                    /\ r.aiCalls = 1
                    /\ callAIEndpoint(r.world[1]).err # <<>>
                    /\ r.podGet = "none"
               /\ r.site = "completed" =>
                    r.fetched = "ok" /\ r.result # <<>> /\ r.podGet # "none"
               /\ r.site \in {"logs", "ai", "completed"}
  /\ lastPass.patches <= 1
  /\ lastPass.patches = 1 <=> lastPass.logFetches = 1
  /\ lastPass.entry \in {"Completed", "Failed", "none"} => lastPass.patches = 0
  /\ lastPass.entry \notin {"Completed", "Failed", "none"} => lastPass.patches = 1

\* a pass is about to send its one status write: it has read the logs, got a
\* result from the AI call and emitted the event
C18_Witness ==
  \E d \in DiagNames :
    /\ reconciler[d].pc = "patch"
    /\ reconciler[d].site = "completed"
    /\ reconciler[d].fetched = "ok"
    /\ reconciler[d].logFetches = 1
    /\ reconciler[d].aiCalls = 1
    /\ reconciler[d].event # <<>>
    /\ events[d] = 1

\* C19: when the List or the Create of a watcher pass fails, the step ends
\* the pass: the stored PodDiagnosis objects are those of before, no name is
\* taken, the pass does not repeat the operation or go on to the next one, it
\* returns the error, and the pod is in the watcher's queue again.
C19_Step ==
  \A p \in PodKeys :
    ((ListStep(p) \/ CreateStep(p)) /\ faults' = faults + 1) =>
      /\ diagnoses' = diagnoses
      /\ nextName' = nextName
      /\ diagQueue' = diagQueue
      /\ watcher'[p].pc = "idle"
      /\ watcher'[p].ret = "err"
      /\ p \in podQueue'

C19_FailedPassCreatesNothing == [][C19_Step]_vars

\* the Create of a pass on a failed pod has just failed: nothing is stored,
\* the pass has returned the error and the pod is queued again
C19_Witness ==
  \E p \in PodKeys :
    /\ watcher[p].pc = "idle"
    /\ watcher[p].ret = "err"
    /\ watcher[p].errAt = "create"
    /\ faults > 0
    /\ p \in podQueue
    /\ pods[p].exists
    /\ isPodFailed(pods[p].status)
    /\ Stored = {}
    /\ nextName = 1

(***************************************************************************)
(* Properties of the events recorded on the target pod.                    *)
(***************************************************************************)
\* C20 as stated: over all the passes and re-deliveries of one PodDiagnosis,
\* a failed Completed patch and the pass that follows it included, at most
\* one diagnosis event is emitted on the target pod.
C20_AsStated == \A d \in DiagNames : events[d] <= 1

====
